---- MODULE Spec2Model ----
(***************************************************************************)
(* Model of adversarial/adversarial_depth.py: the pipeline of              *)
(* generate_adversarial_example (model set-up, loss/gradient construction, *)
(* the fixed-count gradient loop, display) and its pure helpers.           *)
(*                                                                         *)
(* Numbers are exact rationals <<n, d>> (d > 0, lowest terms); tensors are *)
(* nested sequences indexed [batch][row][column][channel].  numpy arrays   *)
(* are buffers in a heap so that aliasing (in-place update, .copy()) is    *)
(* part of the state.  The depth model is an external collaborator; it is  *)
(* modelled by a family of linear toy models (final layer = gain * input), *)
(* gain = 1 being the identity model.                                      *)
(***************************************************************************)
EXTENDS Integers, Sequences, FiniteSets, TLC

(* ------------------------------ bounds -------------------------------- *)
MaxW == 1          \* image widths 1..MaxW (height and batch are 1)
MaxPix == 2        \* pixel values k/10, k in 0..MaxPix
MaxIter == 2       \* iteration counts 0..MaxIter besides the default
MaxGain == 2       \* toy models: final layer = gain * input, gain in 1..MaxGain
MaxGoal == 1       \* bathtub images are constant k/10, k in 0..MaxGoal
MaxTiny == 2       \* raw gradient entries k * 5e-8 and k * 0.05, |k| <= MaxTiny
MaxChan == 4       \* channel counts 1..MaxChan for to_multichannel

(* ------------------------- program constants -------------------------- *)
DefaultIterations == 100
DefaultStepSize == <<1, 1000>>
Epsilon == <<1, 10000000>>          \* K.epsilon()

(* -------------------------- rational numbers --------------------------- *)
\* Python passes arguments by value: each operator below binds its arguments
\* once (x \in {arg}) and computes with the bound values.
Abs(n) == CHOOSE r \in {IF m < 0 THEN -m ELSE m : m \in {n}} : TRUE

RECURSIVE GCD(_, _)
GCD(a, b) ==
  CHOOSE r \in {IF y = 0 THEN x ELSE GCD(y, x % y) : x \in {a}, y \in {b}} : TRUE

\* the rational n/d in lowest terms with a positive denominator
R(n, d) ==
  CHOOSE r \in
    {<<((IF y < 0 THEN -1 ELSE 1) * x) \div g, ((IF y < 0 THEN -1 ELSE 1) * y) \div g>> :
        x \in {n}, y \in {d}, g \in {GCD(Abs(n), Abs(d))}} : TRUE

Zero == <<0, 1>>

RNeg(x) == CHOOSE r \in {<<-a[1], a[2]>> : a \in {x}} : TRUE

RAbs(x) == CHOOSE r \in {<<Abs(a[1]), a[2]>> : a \in {x}} : TRUE

RAddV(a, b, g) ==
  R(a[1] * (b[2] \div g) + b[1] * (a[2] \div g), (a[2] \div g) * b[2])

RAdd(x, y) ==
  CHOOSE r \in {RAddV(a, b, GCD(a[2], b[2])) : a \in {x}, b \in {y}} : TRUE

RSub(x, y) == RAdd(x, RNeg(y))

RMulV(a, b, g1, g2) ==
  IF a[1] = 0 \/ b[1] = 0 THEN Zero
  ELSE <<(a[1] \div g1) * (b[1] \div g2), (a[2] \div g2) * (b[2] \div g1)>>

RMul(x, y) ==
  CHOOSE r \in {RMulV(a, b, GCD(Abs(a[1]), b[2]), GCD(Abs(b[1]), a[2])) :
                  a \in {x}, b \in {y}} : TRUE

RInv(x) ==
  CHOOSE r \in {IF a[1] < 0 THEN <<-a[2], -a[1]>> ELSE <<a[2], a[1]>> : a \in {x}} : TRUE

RDiv(x, y) == RMul(x, RInv(y))

\* a/b < c/d for a, c >= 0 and b, d > 0, by continued fractions (no products)
RECURSIVE LessNN(_, _, _, _)
LessNN(a, b, c, d) ==
  \E q1 \in {a \div b}, q2 \in {c \div d}, r1 \in {a % b}, r2 \in {c % d} :
     IF q1 # q2 THEN q1 < q2
     ELSE IF r2 = 0 THEN FALSE
     ELSE IF r1 = 0 THEN TRUE
     ELSE LessNN(d, r2, b, r1)

RLess(x, y) ==
  \E a \in {x}, b \in {y} :
     IF a[1] < 0
       THEN IF b[1] < 0 THEN LessNN(-b[1], b[2], -a[1], a[2]) ELSE TRUE
       ELSE IF b[1] < 0 THEN FALSE ELSE LessNN(a[1], a[2], b[1], b[2])

RMax(x, y) == CHOOSE r \in {IF RLess(a, b) THEN b ELSE a : a \in {x}, b \in {y}} : TRUE

RECURSIVE RSumTo(_, _)
RSumTo(s, n) == IF n = 0 THEN Zero ELSE RAdd(RSumTo(s, n - 1), s[n])

RSum(s) == CHOOSE r \in {RSumTo(t, Len(t)) : t \in {s}} : TRUE

(* ------------------------------- tensors -------------------------------- *)
\* arrays are indexed [batch][row][column][channel]; an array operation
\* yields a materialised array (r = r makes TLC compute every entry once)
RECURSIVE ConcatTo(_, _)
ConcatTo(ss, n) == IF n = 0 THEN <<>> ELSE ConcatTo(ss, n - 1) \o ss[n]

ConcatAll(ss) == CHOOSE r \in {ConcatTo(t, Len(t)) : t \in {ss}} : TRUE

Flat(t) == ConcatAll(ConcatAll(ConcatAll(t)))

NumElements(t) == Len(Flat(t))

TScale(k, t) ==
  CHOOSE r \in
    {[b \in DOMAIN x |-> [h \in DOMAIN x[b] |-> [w \in DOMAIN x[b][h] |->
        [c \in DOMAIN x[b][h][w] |-> RMul(a, x[b][h][w][c])]]]] :
     a \in {k}, x \in {t}} : r = r

TSub(t, u) ==
  CHOOSE r \in
    {[b \in DOMAIN x |-> [h \in DOMAIN x[b] |-> [w \in DOMAIN x[b][h] |->
        [c \in DOMAIN x[b][h][w] |-> RSub(x[b][h][w][c], y[b][h][w][c])]]]] :
     x \in {t}, y \in {u}} : r = r

\* t - u where u has one channel, broadcast over the channels of t
TSubBroadcast(t, u) ==
  CHOOSE r \in
    {[b \in DOMAIN x |-> [h \in DOMAIN x[b] |-> [w \in DOMAIN x[b][h] |->
        [c \in DOMAIN x[b][h][w] |-> RSub(x[b][h][w][c], y[b][h][w][1])]]]] :
     x \in {t}, y \in {u}} : r = r

TSquare(t) ==
  CHOOSE r \in
    {[b \in DOMAIN x |-> [h \in DOMAIN x[b] |-> [w \in DOMAIN x[b][h] |->
        [c \in DOMAIN x[b][h][w] |-> RMul(x[b][h][w][c], x[b][h][w][c])]]]] :
     x \in {t}} : r = r

TAbs(t) ==
  CHOOSE r \in
    {[b \in DOMAIN x |-> [h \in DOMAIN x[b] |-> [w \in DOMAIN x[b][h] |->
        [c \in DOMAIN x[b][h][w] |-> RAbs(x[b][h][w][c])]]]] :
     x \in {t}} : r = r

TSum(t) == RSum(Flat(t))

TMean(t) == CHOOSE r \in {RDiv(TSum(x), <<NumElements(x), 1>>) : x \in {t}} : TRUE

TDivScalar(t, k) == TScale(RInv(k), t)

(* ------------------ external collaborator: depth model ------------------ *)
\* final-layer activation of the toy model for input tensor x
FinalLayer(m, x) == TScale(<<m.gain, 1>>, x)

\* public depth output: one channel, same spatial resolution as the input
Predict(m, x) ==
  CHOOSE r \in
    {[b \in DOMAIN t |-> [h \in DOMAIN t[b] |-> [w \in DOMAIN t[b][h] |->
        <<RMul(<<g, 1>>, t[b][h][w][1])>>]]] :
     g \in {m.gain}, t \in {x}} : r = r

(* ------------------------- to_multichannel ------------------------------ *)
\* variant: the early return for 3-channel images is missing
to_multichannel_stack(image) ==
  CHOOSE r \in
    {[h \in DOMAIN x |-> [w \in DOMAIN x[h] |->
         <<x[h][w][1], x[h][w][1], x[h][w][1]>>]] :
     x \in {image}} : r = r

to_multichannel(image) ==
  CHOOSE r \in
    {IF Len(x[1][1]) = 3
       THEN x
       ELSE [h \in DOMAIN x |-> [w \in DOMAIN x[h] |->
               <<x[h][w][1], x[h][w][1], x[h][w][1]>>]] :
     x \in {image}} : r = r

\* what display_image hands to imshow
Rendered(image, is_input) ==
  CHOOSE r \in
    {IF is_input
       THEN to_multichannel(x[1])
       ELSE [h \in DOMAIN x[1] |-> [w \in DOMAIN x[1][h] |-> x[1][h][w][1]]] :
     x \in {image}} : r = r

(* ------------------- loss and gradient construction --------------------- *)
\* f = [gain, goal] is the compiled function: the model and the target
\* constant captured when the graph was built
ScaleFactor(f, x) == <<NumElements(FinalLayer(f, x)), 1>>

Difference(f, x) == TSubBroadcast(FinalLayer(f, x), f.goal)

\* variant: the squared error is summed but not divided by scale_factor
Loss_sum(f, x) ==
  CHOOSE r \in {TSum(TSquare(Difference(f, y))) : y \in {x}} : TRUE

Loss(f, x) ==
  CHOOSE r \in {RDiv(TSum(TSquare(Difference(f, y))), ScaleFactor(f, y)) :
                  y \in {x}} : TRUE

\* d loss / d input of the toy model: 2 * gain * (gain * x - goal) / N
RawGradients(f, x) ==
  CHOOSE r \in
    {TScale(RDiv(<<2 * f.gain, 1>>, ScaleFactor(f, y)), Difference(f, y)) :
       y \in {x}} : TRUE

\* variant: minimum instead of maximum
Divisor_min(g) ==
  CHOOSE r \in {IF RLess(m, Epsilon) THEN m ELSE Epsilon : m \in {TMean(TAbs(g))}} : TRUE

Divisor(g) == RMax(TMean(TAbs(g)), Epsilon)

Normalize(g) == CHOOSE r \in {TDivScalar(y, Divisor(y)) : y \in {g}} : TRUE

GetLossAndGradients(f, x) ==
  CHOOSE r \in
    {[loss |-> Loss(f, y), gradients |-> Normalize(RawGradients(f, y))] :
       y \in {x}} : TRUE

\* line 127 applied to the value x: x - s * gradients(x)
Updated(f, x, s) ==
  CHOOSE r \in {TSub(y, TScale(s, GetLossAndGradients(f, y).gradients)) :
                  y \in {x}} : TRUE

(* ------------------------------ inputs ---------------------------------- *)
Channels == {1, 3}

Pixel(k) == R(k, 10)

\* two-valued images: entry (w, c) is a when w + c is even, b otherwise
PatternImage(W, C, a, b) ==
  <<  <<  [w \in 1..W |-> [c \in 1..C |->
              IF (w + c) % 2 = 0 THEN Pixel(a) ELSE Pixel(b)]]  >>  >>

SinkImages ==
  {PatternImage(W, C, a, b) : W \in 1..MaxW, C \in Channels,
                              a \in 0..MaxPix, b \in 0..MaxPix}

BathtubImages(sink) ==
  {PatternImage(Len(sink[1][1]), Len(sink[1][1][1]), k, k) : k \in 0..MaxGoal}

StepSizes == {DefaultStepSize} \cup {R(k, 1000) : k \in 1..2}

\* <<iterations, step_size>> of a call: both defaulted, or both given
Calls ==
  {<<DefaultIterations, DefaultStepSize>>} \cup ((0..MaxIter) \X StepSizes)

None == 0
NoError == "none"
NoModel == [gain |-> 0]
\* the global name before its first assignment (no function behind it)
Unbound == [gain |-> 0, goal |-> <<>>]

(* ------------------------------- state ----------------------------------- *)
VARIABLES
  pc,                      \* position in generate_adversarial_example
  depth_model_wrapper,     \* argument: the wrapper (its toy model's gain)
  iterations, step_size,   \* arguments
  disk,                    \* contents of SINK_IMAGE and BATHTUB_IMAGE
  model,                   \* local: the initialised model, or NoModel
  heap,                    \* numpy buffers, by reference
  input_image, goal_output, original_image, altered_image,  \* references
  get_loss_and_gradients,  \* the module-level global
  i, loss, gradients,      \* locals of gradient_ascent
  evals,                   \* number of calls made to get_loss_and_gradients
  updates,                 \* number of in-place updates applied (line 127)
  unrolled,                \* the loaded input with those updates redone by hand
  stdout,                  \* lines printed: <<i, loss>>
  original_output, altered_output,   \* references, locals of display
  shown,                   \* arrays handed to imshow/show, in order
  error,                   \* the exception that ended the run, or NoError
  arg, result              \* argument/result of a pure helper under test

vars == <<pc, depth_model_wrapper, iterations, step_size, disk, model, heap,
          input_image, goal_output, original_image, altered_image,
          get_loss_and_gradients, i, loss, gradients, evals, updates,
          unrolled, stdout, original_output, altered_output, shown, error, arg, result>>

args == <<depth_model_wrapper, iterations, step_size, disk>>
locals == <<i, loss, gradients>>
counts == <<evals, updates, unrolled>>
disp == <<original_output, altered_output, shown>>
pure == <<arg, result>>

Init ==
  /\ pc = "start"
  /\ depth_model_wrapper \in 1..MaxGain
  /\ \E call \in Calls : iterations = call[1] /\ step_size = call[2]
  /\ \E sink \in SinkImages : \E bathtub \in BathtubImages(sink) :
        disk = [sink |-> sink, bathtub |-> bathtub]
  /\ model = NoModel
  /\ heap = <<>>
  /\ input_image = None /\ goal_output = None
  /\ original_image = None /\ altered_image = None
  /\ get_loss_and_gradients = Unbound
  /\ i = 0 /\ loss = Zero /\ gradients = <<>>
  /\ evals = 0 /\ updates = 0 /\ unrolled = <<>>
  /\ stdout = <<>>
  /\ original_output = None /\ altered_output = None
  /\ shown = <<>>
  /\ error = NoError
  /\ arg = <<>> /\ result = <<>>

(* ------------------------------ actions ---------------------------------- *)
\* lines 142-143
InitializeModel ==
  /\ pc = "start"
  /\ model' = [gain |-> depth_model_wrapper]
  /\ pc' = "model_ready"
  /\ UNCHANGED <<args, heap, input_image, goal_output, original_image,
                 altered_image, get_loss_and_gradients, locals, counts, stdout,
                 disp, error, pure>>

\* lines 145-146 and 34-47: load the sink, predict the bathtub's depth
get_sink_to_bathtub_inputs ==
  /\ pc = "model_ready"
  /\ heap' = heap \o <<disk.sink, Predict(model, disk.bathtub)>>
  /\ input_image' = Len(heap) + 1
  /\ goal_output' = Len(heap) + 2
  /\ unrolled' = disk.sink
  /\ pc' = "inputs_ready"
  /\ UNCHANGED <<args, model, original_image, altered_image,
                 get_loss_and_gradients, locals, evals, updates, stdout, disp, error, pure>>

\* variant: the function is built but the global is not assigned
BuildLossFunction_nobind ==
  /\ pc = "inputs_ready"
  /\ pc' = "bound"
  /\ UNCHANGED <<args, model, heap, input_image, goal_output, original_image,
                 altered_image, get_loss_and_gradients, locals, counts, stdout,
                 disp, error, pure>>

\* lines 149-157: build loss and normalised gradient, bind the global
BuildLossFunction ==
  /\ pc = "inputs_ready"
  /\ get_loss_and_gradients' = [gain |-> model.gain, goal |-> heap[goal_output]]
  /\ pc' = "bound"
  /\ UNCHANGED <<args, model, heap, input_image, goal_output, original_image,
                 altered_image, locals, counts, stdout, disp, error, pure>>

\* variant: original_image = input_image, without .copy()
CopyOriginal_alias ==
  /\ pc = "bound"
  /\ original_image' = input_image
  /\ i' = 0
  /\ pc' = "loop"
  /\ UNCHANGED <<args, model, heap, input_image, goal_output, altered_image,
                 get_loss_and_gradients, loss, gradients, counts, stdout, disp,
                 error, pure>>

\* line 161, and entry into gradient_ascent (line 162)
CopyOriginal ==
  /\ pc = "bound"
  /\ heap' = Append(heap, heap[input_image])
  /\ original_image' = Len(heap) + 1
  /\ i' = 0
  /\ pc' = "loop"
  /\ UNCHANGED <<args, model, input_image, goal_output, altered_image,
                 get_loss_and_gradients, loss, gradients, counts, stdout, disp,
                 error, pure>>

\* variant: the evaluation is made at the saved copy, not at the current input
retrieve_loss_and_gradients_stale ==
  /\ pc = "loop"
  /\ i < iterations
  /\ evals' = evals + 1
  /\ UNCHANGED <<updates, unrolled>>
  /\ \E results \in {GetLossAndGradients(get_loss_and_gradients,
                                         heap[original_image])} :
        /\ loss' = results.loss
        /\ gradients' = results.gradients
        /\ pc' = "print"
        /\ UNCHANGED error
  /\ UNCHANGED <<args, model, heap, input_image, goal_output, original_image,
                 altered_image, get_loss_and_gradients, i, stdout, disp, pure>>

\* line 125 (and 100-110): evaluate loss and gradients at the current input
retrieve_loss_and_gradients ==
  /\ pc = "loop"
  /\ i < iterations
  /\ evals' = evals + 1
  /\ UNCHANGED <<updates, unrolled>>
  /\ IF get_loss_and_gradients = Unbound
       THEN /\ error' = "NameError"
            /\ pc' = "error"
            /\ UNCHANGED <<loss, gradients>>
       ELSE \E results \in {GetLossAndGradients(get_loss_and_gradients,
                                                  heap[input_image])} :
                /\ loss' = results.loss
                /\ gradients' = results.gradients
                /\ pc' = "print"
                /\ UNCHANGED error
  /\ UNCHANGED <<args, model, heap, input_image, goal_output, original_image,
                 altered_image, get_loss_and_gradients, i, stdout, disp, pure>>

\* variant: the error is swallowed and the loop goes on to the next iteration
EvaluationRaises_swallow ==
  /\ pc = "loop"
  /\ i < iterations
  /\ get_loss_and_gradients # Unbound
  /\ evals' = evals + 1
  /\ i' = i + 1
  /\ UNCHANGED <<args, model, heap, input_image, goal_output, original_image,
                 altered_image, get_loss_and_gradients, loss, gradients, updates,
                 unrolled, pc, stdout, disp, error, pure>>

\* line 125 when the framework raises inside the evaluation: nothing catches it
EvaluationRaises ==
  /\ pc = "loop"
  /\ i < iterations
  /\ get_loss_and_gradients # Unbound
  /\ evals' = evals + 1
  /\ UNCHANGED <<updates, unrolled>>
  /\ error' = "FrameworkError"
  /\ pc' = "error"
  /\ UNCHANGED <<args, model, heap, input_image, goal_output, original_image,
                 altered_image, get_loss_and_gradients, locals, stdout, disp, pure>>

\* line 126
PrintLoss ==
  /\ pc = "print"
  /\ stdout' = Append(stdout, <<i, loss>>)
  /\ pc' = "update"
  /\ UNCHANGED <<args, model, heap, input_image, goal_output, original_image,
                 altered_image, get_loss_and_gradients, locals, counts, disp,
                 error, pure>>

\* variant: += instead of -=
UpdateInput_plus ==
  /\ pc = "update"
  /\ heap' = [heap EXCEPT ![input_image] =
                 TSub(@, TScale(RNeg(step_size), gradients))]
  /\ i' = i + 1
  /\ updates' = updates + 1
  /\ unrolled' = Updated(get_loss_and_gradients, unrolled, step_size)
  /\ pc' = "loop"
  /\ UNCHANGED <<args, model, input_image, goal_output, original_image,
                 altered_image, get_loss_and_gradients, loss, gradients, evals,
                 stdout, disp, error, pure>>

\* line 127: in-place update of the buffer, then the next value of the range
UpdateInput ==
  /\ pc = "update"
  /\ heap' = [heap EXCEPT ![input_image] =
                 TSub(@, TScale(step_size, gradients))]
  /\ i' = i + 1
  /\ updates' = updates + 1
  /\ unrolled' = Updated(get_loss_and_gradients, unrolled, step_size)
  /\ pc' = "loop"
  /\ UNCHANGED <<args, model, input_image, goal_output, original_image,
                 altered_image, get_loss_and_gradients, loss, gradients, evals,
                 stdout, disp, error, pure>>

\* variant: a convergence check returns as soon as a logged loss is zero
GradientAscentReturn_early ==
  /\ pc = "loop"
  /\ i >= iterations \/ (i > 0 /\ loss = Zero)
  /\ altered_image' = input_image
  /\ pc' = "display"
  /\ UNCHANGED <<args, model, heap, input_image, goal_output, original_image,
                 get_loss_and_gradients, locals, counts, stdout, disp, error, pure>>

\* line 128 and the assignment of line 162
GradientAscentReturn ==
  /\ pc = "loop"
  /\ i >= iterations
  /\ altered_image' = input_image
  /\ pc' = "display"
  /\ UNCHANGED <<args, model, heap, input_image, goal_output, original_image,
                 get_loss_and_gradients, locals, counts, stdout, disp, error, pure>>

\* lines 91-92
DisplayPredict ==
  /\ pc = "display"
  /\ heap' = heap \o <<Predict(model, heap[original_image]),
                       Predict(model, heap[altered_image])>>
  /\ original_output' = Len(heap) + 1
  /\ altered_output' = Len(heap) + 2
  /\ pc' = "show1"
  /\ UNCHANGED <<args, model, input_image, goal_output, original_image,
                 altered_image, get_loss_and_gradients, locals, counts, stdout,
                 shown, error, pure>>

display_image(ref, is_input, from, to) ==
  /\ pc = from
  /\ shown' = Append(shown, Rendered(heap[ref], is_input))
  /\ pc' = to
  /\ UNCHANGED <<args, model, heap, input_image, goal_output, original_image,
                 altered_image, get_loss_and_gradients, locals, counts, stdout,
                 original_output, altered_output, error, pure>>

\* line 94
DisplayOriginalInput == display_image(original_image, TRUE, "show1", "show2")
\* variant: the second figure shows the altered prediction
DisplayOriginalOutput_altered == display_image(altered_output, FALSE, "show2", "show3")
\* line 95
DisplayOriginalOutput == display_image(original_output, FALSE, "show2", "show3")
\* line 96
DisplayAlteredInput == display_image(altered_image, TRUE, "show3", "show4")
\* line 97
DisplayAlteredOutput == display_image(altered_output, FALSE, "show4", "done")

Next ==
  \/ InitializeModel
  \/ get_sink_to_bathtub_inputs
  \/ BuildLossFunction
  \/ CopyOriginal
  \/ retrieve_loss_and_gradients
  \/ EvaluationRaises
  \/ PrintLoss
  \/ UpdateInput
  \/ GradientAscentReturn
  \/ DisplayPredict
  \/ DisplayOriginalInput
  \/ DisplayOriginalOutput
  \/ DisplayAlteredInput
  \/ DisplayAlteredOutput

Spec == Init /\ [][Next]_vars

\* single thread of control, blocking calls: a step that can be taken is taken.
\* Whether the loop ends does not depend on the model, so the fair runs use the
\* identity model.
InitFair == Init /\ depth_model_wrapper = 1

FairSpec == InitFair /\ [][Next]_vars /\ WF_vars(Next)

(* --------------------- pure helpers, applied alone ---------------------- *)
PipelineIdle ==
  /\ depth_model_wrapper = 1
  /\ iterations = 0
  /\ step_size = DefaultStepSize
  /\ disk = [sink |-> PatternImage(1, 1, 0, 0), bathtub |-> PatternImage(1, 1, 0, 0)]
  /\ model = NoModel
  /\ heap = <<>>
  /\ input_image = None /\ goal_output = None
  /\ original_image = None /\ altered_image = None
  /\ get_loss_and_gradients = Unbound
  /\ i = 0 /\ loss = Zero /\ gradients = <<>>
  /\ evals = 0 /\ updates = 0 /\ unrolled = <<>>
  /\ stdout = <<>>
  /\ original_output = None /\ altered_output = None
  /\ shown = <<>>
  /\ error = NoError

pipeline == <<args, model, heap, input_image, goal_output, original_image,
              altered_image, get_loss_and_gradients, locals, counts, stdout,
              disp, error>>

\* raw gradient entries: multiples of 5e-8 (around K.epsilon()) and of 0.05
GradientEntries ==
  {R(k, 20000000) : k \in (-MaxTiny)..MaxTiny} \cup
  {R(k, 20) : k \in (-MaxTiny)..MaxTiny}

RawGradientTensors ==
  {<< << [w \in 1..W |-> [c \in 1..C |-> IF (w + c) % 2 = 0 THEN a ELSE b]] >> >> :
      W \in 1..MaxW, C \in Channels, a \in GradientEntries, b \in GradientEntries}

InitNorm ==
  /\ pc = "norm_ready"
  /\ arg \in RawGradientTensors
  /\ result = <<>>
  /\ PipelineIdle

\* line 154 applied to a raw gradient tensor
ApplyNormalize ==
  /\ pc = "norm_ready"
  /\ result' = <<Divisor(arg), Normalize(arg)>>
  /\ pc' = "norm_done"
  /\ UNCHANGED <<pipeline, arg>>

NextNorm == ApplyNormalize

SpecNorm == InitNorm /\ [][NextNorm]_vars

\* images [row][column][channel] with 1..MaxChan channels, three pixel values
ChannelImages ==
  {[h \in 1..H |-> [w \in 1..W |-> [c \in 1..C |->
       Pixel(<<a, b, d>>[((h + w + c) % 3) + 1])]]] :
      H \in 1..2, W \in 1..MaxW, C \in 1..MaxChan,
      a \in 0..MaxPix, b \in 0..MaxPix, d \in 0..MaxPix}

InitMC ==
  /\ pc = "mc_ready"
  /\ arg \in ChannelImages
  /\ result = <<>>
  /\ PipelineIdle

\* lines 50-59 applied to an image
ApplyToMultichannel ==
  /\ pc = "mc_ready"
  /\ result' = <<to_multichannel(arg)>>
  /\ pc' = "mc_once"
  /\ UNCHANGED <<pipeline, arg>>

\* lines 50-59 applied to the previous result
ApplyToMultichannelAgain ==
  /\ pc = "mc_once"
  /\ result' = Append(result, to_multichannel(result[1]))
  /\ pc' = "mc_twice"
  /\ UNCHANGED <<pipeline, arg>>

NextMC == ApplyToMultichannel \/ ApplyToMultichannelAgain

SpecMC == InitMC /\ [][NextMC]_vars

(* ============================== properties =============================== *)
AfterLoop == {"display", "show1", "show2", "show3", "show4", "done"}
InLoop == {"loop", "print", "update"}

\* the input after n updates, unrolled by hand from x
RECURSIVE Unrolled(_, _, _, _)
Unrolled(f, x, s, n) ==
  IF n <= 0 THEN x
  ELSE CHOOSE r \in {Unrolled(f, y, s, n - 1) : y \in {Updated(f, x, s)}} : TRUE

\* the losses at x_0, ..., x_(n-1) of that unrolling
RECURSIVE UnrolledLosses(_, _, _, _)
UnrolledLosses(f, x, s, n) ==
  IF n <= 0 THEN <<>>
  ELSE CHOOSE r \in {<<Loss(f, x)>> \o UnrolledLosses(f, y, s, n - 1) :
                        y \in {Updated(f, x, s)}} : TRUE

\* C1: gradient_ascent(x0, n, s) returns x0 minus the accumulated s * gradient_t,
\* gradient_t being evaluated at the input after the first t updates
\* (n = 0 returns x0 unchanged).
GradientAscentLaw ==
  /\ pc \in InLoop \cup AfterLoop => updates <= iterations
  /\ pc \in AfterLoop =>
       /\ updates = iterations
       /\ heap[altered_image] = unrolled
       /\ iterations = 0 => heap[altered_image] = disk.sink
  /\ (pc = "display" /\ iterations <= MaxIter) =>
       heap[altered_image] =
         Unrolled(get_loss_and_gradients, disk.sink, step_size, iterations)

GradientAscentLawWitness ==
  /\ pc = "display"
  /\ iterations = DefaultIterations
  /\ heap[altered_image] # disk.sink

\* C9: each iteration evaluates, logs, then updates: the loss logged at
\* iteration k is the loss of the input after exactly k updates, exactly
\* `iterations` losses are logged and the returned input is never evaluated.
LoggedLossOrder ==
  /\ [](pc \in InLoop \cup AfterLoop \cup {"error"} =>
          /\ updates = i
          /\ heap[input_image] = unrolled
          /\ Len(stdout) = (IF pc = "update" THEN i + 1 ELSE i)
          /\ \A k \in 1..Len(stdout) : stdout[k][1] = k - 1)
  /\ [](pc \in {"print", "update"} =>
          loss = Loss(get_loss_and_gradients, unrolled))
  /\ [](pc = "update" => stdout[Len(stdout)] = <<updates, loss>>)
  /\ [](pc \in AfterLoop => Len(stdout) = iterations /\ evals = iterations)
  /\ [](pc = "display" /\ iterations <= MaxIter =>
          LET losses == UnrolledLosses(get_loss_and_gradients, disk.sink,
                                       step_size, Len(stdout))
          IN  stdout = [k \in 1..Len(stdout) |-> <<k - 1, losses[k]>>])
  /\ [][stdout' # stdout =>
          pc = "print" /\ pc' = "update" /\ stdout' = Append(stdout, <<i, loss>>)]_vars

LoggedLossOrderWitness ==
  /\ pc = "done"
  /\ Len(stdout) = DefaultIterations
  /\ stdout[1][2] # stdout[2][2]

\* C5: the loop ends after exactly `iterations` iterations with a fixed step
\* size: it always terminates, never returns early and never runs an extra
\* iteration.
FixedIterationCount ==
  /\ <>(pc \in {"done", "error"})
  /\ [](pc \in AfterLoop => i = iterations /\ Len(stdout) = iterations)
  /\ [](i <= iterations)
  /\ [][step_size' = step_size /\ iterations' = iterations]_vars

FixedIterationCountWitness ==
  /\ pc = "done"
  /\ iterations = DefaultIterations
  /\ stdout[DefaultIterations][2] = Zero

\* C7: a failing evaluation at iteration k ends the run with that error:
\* nothing runs afterwards, nothing is returned or displayed, and the input
\* holds exactly the k updates made before the failure.
ErrorAbortsRun ==
  /\ [](pc = "error" =>
          /\ error = "FrameworkError"
          /\ altered_image = None
          /\ original_output = None /\ altered_output = None
          /\ shown = <<>>
          /\ Len(stdout) = i
          /\ updates = i
          /\ evals = i + 1
          /\ heap[input_image] = unrolled
          /\ i <= MaxIter =>
               heap[input_image] =
                 Unrolled(get_loss_and_gradients, disk.sink, step_size, i))
  /\ [](evals = Len(stdout) + (IF pc \in {"print", "error"} THEN 1 ELSE 0))
  /\ [][pc' = "error" =>
          /\ pc = "loop"
          /\ heap' = heap /\ input_image' = input_image
          /\ i' = i /\ updates' = updates /\ stdout' = stdout
          /\ evals' = evals + 1]_vars
  /\ [][pc # "error"]_vars

ErrorAbortsRunWitness ==
  /\ pc = "error"
  /\ i = DefaultIterations - 1
  /\ heap[input_image] # disk.sink

\* C8: the global is bound once, before the loop, and never rebound: no
\* evaluation is attempted while it is unbound and the binding is the same
\* throughout the loop.
GlobalBoundOnce ==
  /\ [](pc \in InLoop => get_loss_and_gradients # Unbound)
  /\ [](error # "NameError")
  /\ [][get_loss_and_gradients' # get_loss_and_gradients =>
          get_loss_and_gradients = Unbound /\ pc = "inputs_ready"]_vars

GlobalBoundOnceWitness ==
  /\ pc = "done"
  /\ evals = DefaultIterations
  /\ get_loss_and_gradients # Unbound

\* C10: the loop mutates the input buffer in place and returns that buffer;
\* the copy kept as original_image and the target depth are untouched.
OriginalUntouched ==
  /\ original_image # None => heap[original_image] = disk.sink
  /\ altered_image # None => altered_image = input_image
  /\ original_image # None => original_image # input_image
  /\ goal_output # None => heap[goal_output] = Predict(model, disk.bathtub)
  /\ pc \in InLoop \cup AfterLoop =>
       get_loss_and_gradients.goal = Predict(model, disk.bathtub)
  /\ Len(shown) >= 1 => shown[1] = to_multichannel(disk.sink[1])
  /\ Len(shown) >= 3 => shown[3] = to_multichannel(heap[input_image][1])

OriginalUntouchedWitness ==
  /\ pc = "done"
  /\ heap[altered_image] # heap[original_image]

\* C6: display predicts for both inputs first and then renders original
\* input, original depth, altered input, altered depth, each depth being
\* the model's prediction for the input rendered just before it.
DisplayOrder ==
  LET expected ==
        << to_multichannel(heap[original_image][1]),
           Rendered(Predict(model, heap[original_image]), FALSE),
           to_multichannel(heap[altered_image][1]),
           Rendered(Predict(model, heap[altered_image]), FALSE) >>
  IN  /\ shown # <<>> => original_output # None /\ altered_output # None
      /\ Len(shown) <= 4
      /\ \A k \in 1..Len(shown) : shown[k] = expected[k]
      /\ pc = "done" => Len(shown) = 4

DisplayOrderWitness ==
  /\ pc = "done"
  /\ Len(shown) = 4
  /\ shown[2] # shown[4]

(* ---------------- toy scenario: identity model, zero target -------------- *)
ToyScenario ==
  /\ depth_model_wrapper = 1
  /\ disk.bathtub = PatternImage(Len(disk.sink[1][1]), Len(disk.sink[1][1][1]), 0, 0)
  /\ step_size = DefaultStepSize
  /\ iterations = DefaultIterations

LossesAsInScenario ==
  /\ Len(stdout) >= 1 => stdout[1][2] = TMean(TSquare(disk.sink))
  /\ \A k \in 1..(Len(stdout) - 1) : RLess(stdout[k + 1][2], stdout[k][2])

\* C2 as stated: in the toy scenario the first logged loss is mean(input^2)
\* and the logged losses are strictly decreasing.
ToyLossStrictlyDecreasing == ToyScenario => LossesAsInScenario

\* C2 as amended: ... provided the mean absolute value of the initial input is
\* at least iterations * step_size, the first logged loss is mean(input^2) and
\* the logged losses are strictly decreasing.
ToyLossDecreasingFromLargeInput ==
  (/\ ToyScenario
   /\ ~RLess(TMean(TAbs(disk.sink)), RMul(<<iterations, 1>>, step_size)))
  => LossesAsInScenario

ToyLossDecreasingWitness ==
  /\ ToyScenario
  /\ ~RLess(TMean(TAbs(disk.sink)), RMul(<<iterations, 1>>, step_size))
  /\ pc = "done"
  /\ Len(stdout) = DefaultIterations
  /\ RLess(stdout[DefaultIterations][2], stdout[1][2])

\* C3: the divisor of the gradient normalisation is never below the floor: it
\* is mean(abs(gradient)) when that is at least the floor and the floor
\* otherwise; an all-zero gradient stays all-zero.
NormalizationFloor ==
  pc = "norm_done" =>
    \E m \in {TMean(TAbs(arg))} :
       /\ ~RLess(result[1], Epsilon)
       /\ ~RLess(m, Epsilon) => result[1] = m
       /\ RLess(m, Epsilon) => result[1] = Epsilon
       /\ result[2] = TDivScalar(arg, result[1])
       /\ m = Zero => result[2] = arg

NormalizationFloorWitness ==
  /\ pc = "norm_done"
  /\ RLess(TMean(TAbs(arg)), Epsilon)
  /\ TMean(TAbs(arg)) # Zero
  /\ result[1] = Epsilon

\* C4: to_multichannel returns a 3-channel image unchanged, is idempotent on
\* every image, and turns a 1-channel image into a 3-channel image of the
\* same height and width whose channels all equal the input's channel.
ToMultichannelLaw ==
  /\ (Len(result) >= 1 /\ Len(arg[1][1]) = 3) => result[1] = arg
  /\ Len(result) = 2 => result[2] = result[1]
  /\ (Len(result) >= 1 /\ Len(arg[1][1]) = 1) =>
       /\ DOMAIN result[1] = DOMAIN arg
       /\ \A h \in DOMAIN arg :
            /\ DOMAIN result[1][h] = DOMAIN arg[h]
            /\ \A w \in DOMAIN arg[h] :
                 result[1][h][w] = <<arg[h][w][1], arg[h][w][1], arg[h][w][1]>>

ToMultichannelLawWitness ==
  /\ pc = "mc_twice"
  /\ Len(arg[1][1]) = 1
  /\ Len(result[2][1][1]) = 3

TypeOK ==
  /\ pc \in {"start", "model_ready", "inputs_ready", "bound", "loop", "print",
             "update", "display", "show1", "show2", "show3", "show4", "done",
             "error", "norm_ready", "norm_done", "mc_ready", "mc_once",
             "mc_twice"}
  /\ i \in 0..DefaultIterations

====
